---- MODULE Spec2Model ----
\* Dee Why Hidden Gems API (src/server.js): an Express server with five routes
\* over the MongoDB collection hidden_gems.  Every handler is split at its
\* await: the synchronous part up to the store call is one step, the store's
\* execution together with the handler's continuation is the next.  What a
\* handler sends stays in `out` until the socket has taken it (Sent), which
\* happens before the event loop runs anything else; the server keeps no
\* record of an exchange after that, except the ghost `destroyed`.
EXTENDS Integers, Sequences, FiniteSets, TLC

\* ---------------------------------------------------------------- bounds
MaxOid == 2       \* ObjectIds the driver generates in one run
MaxClock == 0     \* readings of the server clock: 0..MaxClock
MaxInflight == 2  \* handlers suspended at their await at the same time

\* ---------------------------------------------------------------- values
\* A JSON/BSON value is a tagged number.  "str": a JSON string, number 0 the
\* empty string; "hex": the 24-digit hex string that spells ObjectId n;
\* "oid": the BSON ObjectId n; "date": a BSON Date; "iso": the ISO string a
\* Date is serialised to.
Str(n) == [t |-> "str", v |-> n]
Hex(n) == [t |-> "hex", v |-> n]
Oid(n) == [t |-> "oid", v |-> n]
Date(n) == [t |-> "date", v |-> n]
Iso(n) == [t |-> "iso", v |-> n]
Null == [t |-> "null", v |-> 0]

EmptyDoc == [f \in {} |-> Null]

\* ObjectId.isValid on a path parameter (always a string)
IsValid(s) == s.t = "hex"

\* new ObjectId(gemId)
NewObjectId(s) == Oid(s.v)

\* res.json's serialisation of one value: ObjectId -> hex string, Date -> ISO
ToJSON(x) ==
  CASE x.t = "oid" -> Hex(x.v)
    [] x.t = "date" -> Iso(x.v)
    [] OTHER -> x

ToJSONDoc(d) == [f \in DOMAIN d |-> ToJSON(d[f])]

\* JavaScript falsiness of a body field: absent (undefined) or ""
Falsy(body, f) == f \notin DOMAIN body \/ body[f] = Str(0)

\* delete doc[f]
DeleteField(doc, f) == [g \in DOMAIN doc \ {f} |-> doc[g]]

\* doc[f] = x
SetField(doc, f, x) == [g \in DOMAIN doc \cup {f} |-> IF g = f THEN x ELSE doc[g]]

\* ---------------------------------------------------------------- the store
\* The driver adds a generated _id only when the document carries none.
PrepareDoc(doc, pk) == IF "_id" \in DOMAIN doc THEN doc ELSE SetField(doc, "_id", pk)

\* insertOne: the unique index on _id rejects a duplicate key
InsertOne(coll, doc) ==
  IF \E d \in coll : d["_id"] = doc["_id"]
    THEN [ok |-> FALSE, coll |-> coll, n |-> 0, m |-> 0, insertedId |-> Null]
    ELSE [ok |-> TRUE, coll |-> coll \cup {doc}, n |-> 1, m |-> 0,
          insertedId |-> doc["_id"]]

\* findOne({_id: id})
FindOne(coll, id) == {d \in coll : d["_id"] = id}

\* the operand replaces the document, which keeps only its _id
SetFields_Replace(d, upd) ==
  [f \in {"_id"} \cup DOMAIN upd |-> IF f \in DOMAIN upd THEN upd[f] ELSE d[f]]

\* $set: the operand's fields replace the document's, the others stay
SetFields(d, upd) ==
  [f \in DOMAIN d \cup DOMAIN upd |-> IF f \in DOMAIN upd THEN upd[f] ELSE d[f]]

\* updateOne with upsert: a document is created when none matches
UpdateOne_Upsert(coll, id, upd) ==
  LET hit == {d \in coll : d["_id"] = id}
      new == IF hit = {} THEN {[f \in {"_id"} \cup DOMAIN upd |->
                                 IF f = "_id" THEN id ELSE upd[f]]}
             ELSE {[f \in DOMAIN d \cup DOMAIN upd |->
                     IF f \in DOMAIN upd THEN upd[f] ELSE d[f]] : d \in hit}
  IN [ok |-> TRUE, coll |-> (coll \ hit) \cup new,
      n |-> Cardinality(hit), m |-> Cardinality(new \ hit), insertedId |-> Null]

\* updateOne({_id: id}, {$set: upd}), no upsert
UpdateOne(coll, id, upd) ==
  LET hit == FindOne(coll, id)
      new == {SetFields(d, upd) : d \in hit}
  IN [ok |-> TRUE, coll |-> (coll \ hit) \cup new,
      n |-> Cardinality(hit), m |-> Cardinality(new \ hit), insertedId |-> Null]

\* a delete that reports the match and leaves the document
DeleteOne_Keep(coll, id) ==
  [ok |-> TRUE, coll |-> coll, n |-> Cardinality({d \in coll : d["_id"] = id}),
   m |-> 0, insertedId |-> Null]

\* deleteOne({_id: id})
DeleteOne(coll, id) ==
  LET hit == FindOne(coll, id)
  IN [ok |-> TRUE, coll |-> coll \ hit, n |-> Cardinality(hit), m |-> 0,
      insertedId |-> Null]

\* ---------------------------------------------------------------- requests
Base == [title |-> Str(1), description |-> Str(1), category |-> Str(1)]

\* bodies of POST /api/gems
PostBodies ==
  { Base,
    SetField(Base, "submissionDate", Str(2)),
    SetField(Base, "_id", Str(0)),
    SetField(Base, "_id", Hex(1)),
    DeleteField(Base, "category"),
    DeleteField(Base, "description"),
    SetField(Base, "title", Str(0)) }

\* bodies of PUT /api/gems/:id
PutBodies ==
  { [title |-> Str(2)],
    [category |-> Str(2)],
    [title |-> Str(1), category |-> Str(2)],
    [submissionDate |-> Str(2)],
    SetField([title |-> Str(2)], "_id", Hex(2)) }

\* path parameters: a string that is no identifier, and the hex of each id
PathIds == {Str(1)} \cup {Hex(n) : n \in 1..MaxOid}

Req(method, id, body) == [method |-> method, id |-> id, body |-> body]
NoReq == Req("NONE", Null, EmptyDoc)

\* ---------------------------------------------------------------- responses
Resp(status, message, insertedId, data) ==
  [status |-> status, message |-> message, insertedId |-> insertedId, data |-> data]

Msg(status, message) == Resp(status, message, Null, {})

\* no exchange is being answered
Nothing ==
  [req |-> NoReq, calls |-> 0, threw |-> FALSE, n |-> 0, m |-> 0, sent |-> <<>>]

VARIABLES
  pc,        \* the main script: "start", "connecting", "listening", "exited"
  db,        \* the shared handle: TRUE once client.db(...) was assigned
  gems,      \* the collection hidden_gems: a set of documents
  nextOid,   \* the driver's ObjectId generator
  inflight,  \* handlers suspended at their store call
  out,       \* the request just answered, with everything sent for it
  destroyed  \* ghost: the path ids a DELETE has answered 200 for

vars == <<pc, db, gems, nextOid, inflight, out, destroyed>>

Init ==
  /\ pc = "start"
  /\ db = FALSE
  /\ gems = {}
  /\ nextOid = 1
  /\ inflight = {}
  /\ out = Nothing
  /\ destroyed = {}

\* ---------------------------------------------------------------- handlers
\* a store call that throws (connectivity, timeout, driver or server error)
Failed(coll) == [ok |-> FALSE, coll |-> coll, n |-> 0, m |-> 0, insertedId |-> Null]

\* a catch block that logs and sends nothing
OnError_Silent(method) == << >>

\* the catch block of each handler
OnError(method) ==
  << Msg(500, CASE method = "LIST" -> "Failed to fetch hidden gems"
                [] method = "GET" -> "Failed to fetch hidden gem"
                [] method = "POST" -> "Failed to add hidden gem"
                [] method = "PUT" -> "Failed to update hidden gem"
                [] OTHER -> "Failed to delete hidden gem") >>

\* the check forgets category
MissingRequired_NoCategory(body) == Falsy(body, "title") \/ Falsy(body, "description")

\* !newGem.title || !newGem.description || !newGem.category
MissingRequired(body) ==
  Falsy(body, "title") \/ Falsy(body, "description") \/ Falsy(body, "category")

\* the body is used as it came
StripId_Keep(body) == body

\* delete updatedGem._id
StripId(body) == DeleteField(body, "_id")

\* GET /api/gems after the await
ListResponses(res) == << Resp(200, "", Null, {ToJSONDoc(d) : d \in res.coll}) >>

\* GET /api/gems/:id after the await
GetResponses(found) ==
  IF found = {}
    THEN << Msg(404, "Hidden gem not found") >>
    ELSE << Resp(200, "", Null, {ToJSONDoc(d) : d \in found}) >>

\* POST /api/gems after the await
PostResponses(res, newGem) ==
  << Resp(201, "Hidden gem added successfully", ToJSON(res.insertedId),
          {ToJSONDoc(newGem)}) >>

\* PUT /api/gems/:id after the await
PutResponses(res) ==
  IF res.n = 0 THEN << Msg(404, "Hidden gem not found") >>
  ELSE IF res.m = 0
    THEN << Msg(200, "No changes made to the hidden gem (data was identical)") >>
    ELSE << Msg(200, "Hidden gem updated successfully") >>

\* DELETE /api/gems/:id after the await
DeleteResponses(res) ==
  IF res.n = 0
    THEN << Msg(404, "Hidden gem not found or already deleted") >>
    ELSE << Msg(200, "Hidden gem deleted successfully") >>

InvalidId == << Msg(400, "Invalid Gem ID format") >>

Answered(req, calls, res, sent) ==
  [req |-> req, calls |-> calls, threw |-> ~res.ok, n |-> res.n, m |-> res.m,
   sent |-> sent]

NoCall == [ok |-> TRUE, coll |-> {}, n |-> 0, m |-> 0, insertedId |-> Null]

Quiet == out = Nothing

Serving == pc = "listening" /\ Quiet

\* the path ids for which this exchange reports a successful DELETE
Destroyed(x) ==
  IF x.req.method = "DELETE" /\ x.sent # <<>> /\ x.sent[1].status = 200
    THEN {x.req.id} ELSE {}

\* the handler answers before any await: nothing but the response changes
AnswerNow(req, res, sent) ==
  /\ out' = Answered(req, 0, res, sent)
  /\ UNCHANGED <<pc, db, gems, nextOid, inflight, destroyed>>

\* the handler issues its store call and is suspended
Suspend(req, op) ==
  /\ Cardinality(inflight) < MaxInflight
  /\ inflight' = inflight \cup {[req |-> req, op |-> op]}
  /\ UNCHANGED <<pc, db, gems, out, destroyed>>

\* the handler resumes with the store's result
Resume(r, res, sent) ==
  /\ inflight' = inflight \ {r}
  /\ gems' = res.coll
  /\ out' = Answered(r.req, 1, res, sent)
  /\ destroyed' = destroyed \cup Destroyed(out')
  /\ UNCHANGED <<pc, db, nextOid>>

\* ---------------------------------------------------------------- startup
\* connectDB() up to its await: new MongoClient(uri) may throw at once
ConnectDB ==
  /\ pc = "start" /\ Quiet
  /\ \E uriOk \in BOOLEAN : pc' = IF uriOk THEN "connecting" ELSE "exited"
  /\ UNCHANGED <<db, gems, nextOid, inflight, out, destroyed>>

\* app.listen(port): runs in the same tick, while client.connect() is pending
Listen ==
  /\ pc = "connecting" /\ Quiet
  /\ pc' = "listening"
  /\ UNCHANGED <<db, gems, nextOid, inflight, out, destroyed>>

\* client.connect() resolves: db = client.db(...)
ConnectResolve ==
  /\ Serving
  /\ ~db
  /\ db' = TRUE
  /\ UNCHANGED <<pc, gems, nextOid, inflight, out, destroyed>>

\* client.connect() rejects: process.exit(1)
ConnectReject ==
  /\ Serving
  /\ ~db
  /\ pc' = "exited"
  /\ UNCHANGED <<db, gems, nextOid, inflight, out, destroyed>>

\* ---------------------------------------------------------------- routes
\* the socket has taken the response
Sent ==
  /\ ~Quiet
  /\ out' = Nothing
  /\ UNCHANGED <<pc, db, gems, nextOid, inflight, destroyed>>

GetRoot ==
  /\ Serving
  /\ AnswerNow(Req("ROOT", Null, EmptyDoc), NoCall,
               << Msg(200, "Dee Why Hidden Gems API is running!") >>)

ListBegin ==
  /\ Serving
  /\ LET req == Req("LIST", Null, EmptyDoc)
     IN IF ~db
          THEN AnswerNow(req, Failed({}), OnError("LIST"))
          ELSE Suspend(req, EmptyDoc) /\ UNCHANGED nextOid

ListDone ==
  /\ Serving
  /\ \E r \in inflight, fail \in BOOLEAN :
       /\ r.req.method = "LIST"
       /\ LET res == IF fail THEN Failed(gems) ELSE [NoCall EXCEPT !.coll = gems]
          IN Resume(r, res, IF res.ok THEN ListResponses(res) ELSE OnError("LIST"))

GetBegin ==
  /\ Serving
  /\ \E id \in PathIds :
       LET req == Req("GET", id, EmptyDoc)
       IN IF ~IsValid(id) THEN AnswerNow(req, NoCall, InvalidId)
          ELSE IF ~db THEN AnswerNow(req, Failed({}), OnError("GET"))
          ELSE Suspend(req, EmptyDoc) /\ UNCHANGED nextOid

GetDone ==
  /\ Serving
  /\ \E r \in inflight, fail \in BOOLEAN :
       /\ r.req.method = "GET"
       /\ LET found == FindOne(gems, NewObjectId(r.req.id))
              res == IF fail THEN Failed(gems)
                     ELSE [NoCall EXCEPT !.coll = gems, !.n = Cardinality(found)]
          IN Resume(r, res, IF res.ok THEN GetResponses(found) ELSE OnError("GET"))

PostBegin ==
  /\ Serving
  /\ \E body \in PostBodies, now \in 0..MaxClock :
       LET req == Req("POST", Null, body)
           stamped == SetField(body, "submissionDate", Date(now))
           newGem == PrepareDoc(stamped, Oid(nextOid))
       IN IF MissingRequired(body)
            THEN AnswerNow(req, NoCall,
                   << Msg(400, "Missing required gem fields (title, description, category)") >>)
          ELSE IF ~db THEN AnswerNow(req, Failed({}), OnError("POST"))
          ELSE /\ newGem = stamped \/ nextOid <= MaxOid
               /\ nextOid' = IF newGem = stamped THEN nextOid ELSE nextOid + 1
               /\ Suspend(req, newGem)

PostDone ==
  /\ Serving
  /\ \E r \in inflight, fail \in BOOLEAN :
       /\ r.req.method = "POST"
       /\ LET res == IF fail THEN Failed(gems) ELSE InsertOne(gems, r.op)
          IN Resume(r, res, IF res.ok THEN PostResponses(res, r.op) ELSE OnError("POST"))

PutBegin ==
  /\ Serving
  /\ \E id \in PathIds, body \in PutBodies :
       LET req == Req("PUT", id, body)
       IN IF ~IsValid(id) THEN AnswerNow(req, NoCall, InvalidId)
          ELSE IF ~db THEN AnswerNow(req, Failed({}), OnError("PUT"))
          ELSE Suspend(req, StripId(body)) /\ UNCHANGED nextOid

PutDone ==
  /\ Serving
  /\ \E r \in inflight, fail \in BOOLEAN :
       /\ r.req.method = "PUT"
       /\ LET res == IF fail THEN Failed(gems)
                     ELSE UpdateOne(gems, NewObjectId(r.req.id), r.op)
          IN Resume(r, res, IF res.ok THEN PutResponses(res) ELSE OnError("PUT"))

DeleteBegin ==
  /\ Serving
  /\ \E id \in PathIds :
       LET req == Req("DELETE", id, EmptyDoc)
       IN IF ~IsValid(id) THEN AnswerNow(req, NoCall, InvalidId)
          ELSE IF ~db THEN AnswerNow(req, Failed({}), OnError("DELETE"))
          ELSE Suspend(req, EmptyDoc) /\ UNCHANGED nextOid

DeleteDone ==
  /\ Serving
  /\ \E r \in inflight, fail \in BOOLEAN :
       /\ r.req.method = "DELETE"
       /\ LET res == IF fail THEN Failed(gems)
                     ELSE DeleteOne(gems, NewObjectId(r.req.id))
          IN Resume(r, res, IF res.ok THEN DeleteResponses(res) ELSE OnError("DELETE"))

Next ==
  \/ ConnectDB
  \/ Listen
  \/ ConnectResolve
  \/ ConnectReject
  \/ Sent
  \/ GetRoot
  \/ ListBegin
  \/ ListDone
  \/ GetBegin
  \/ GetDone
  \/ PostBegin
  \/ PostDone
  \/ PutBegin
  \/ PutDone
  \/ DeleteBegin
  \/ DeleteDone

Spec == Init /\ [][Next]_vars

\* ---------------------------------------------------------------- properties
\* the handler suspended as r resumes in this step
Done(r) == r \in inflight /\ inflight' = inflight \ {r} /\ out'.req = r.req

\* the documents of coll stored under the ObjectId a path id spells
Stored(coll, id) == {d \in coll : d["_id"].t = "oid" /\ d["_id"].v = id.v}

Required == {"title", "description", "category"}

\* C1: a request with a client input error (GET, PUT or DELETE with a path id
\* that is not in the identifier format; POST with title, description or
\* category missing or empty) is answered 400, once, with no store call
\* issued, and the collection is as it was.
C1_ClientErrorIs400 ==
  [][ LET x == out'
          badId == x.req.method \in {"GET", "PUT", "DELETE"} /\ x.req.id.t # "hex"
          badBody == x.req.method = "POST" /\
                     \E f \in Required :
                       f \notin DOMAIN x.req.body \/ x.req.body[f] = Str(0)
      IN (out = Nothing /\ x # Nothing /\ (badId \/ badBody)) =>
           /\ Len(x.sent) = 1
           /\ x.sent[1].status = 400
           /\ x.calls = 0
           /\ inflight' = inflight
           /\ gems' = gems ]_vars

C1_Witness ==
  /\ out.req.method = "POST"
  /\ "category" \notin DOMAIN out.req.body
  /\ out.sent # <<>> /\ out.sent[1].status = 400
  /\ gems # {}

\* C2: a POST with non-empty title, description and category whose insert
\* succeeds is answered 201, adds exactly one record and changes no other, the
\* insertedId it returns is non-empty and is the id of no other record, and
\* the stored submissionDate is the server's Date, not the caller's value.
C2_CreateAddsOneFreshRecord ==
  [][ \A r \in inflight :
        (Done(r) /\ r.req.method = "POST" /\ ~out'.threw) =>
          LET added == gems' \ gems
              id == out'.sent[1].insertedId
          IN /\ Len(out'.sent) = 1 /\ out'.sent[1].status = 201
             /\ gems \subseteq gems' /\ Cardinality(added) = 1
             /\ id # Null /\ id # Str(0)
             /\ \A d \in added :
                  /\ ToJSON(d["_id"]) = id
                  /\ \A e \in gems : e["_id"] # d["_id"]
                  /\ d["submissionDate"].t = "date"
                  /\ "submissionDate" \in DOMAIN r.req.body =>
                       d["submissionDate"] # r.req.body["submissionDate"] ]_vars

\* C3: GET, PUT and DELETE with a well-formed id that matches no record when
\* the store call runs (and the call returns) are answered 404, and the
\* collection is as it was: PUT creates nothing.
C3_NoMatchIs404 ==
  [][ \A r \in inflight :
        (Done(r) /\ r.req.method \in {"GET", "PUT", "DELETE"} /\ ~out'.threw
           /\ Stored(gems, r.req.id) = {}) =>
          /\ Len(out'.sent) = 1
          /\ out'.sent[1].status = 404
          /\ gems' = gems ]_vars

C3_Witness ==
  /\ out.req.method = "PUT" /\ out.calls = 1 /\ ~out.threw
  /\ out.sent # <<>> /\ out.sent[1].status = 404
  /\ gems # {}

\* C4: a PUT with a well-formed id whose store call returns has three
\* outcomes: no record matches, 404; a record matches and every supplied
\* field already has the supplied value, 200 "no changes" and the record is
\* as it was; a record matches and a supplied field differs, 200 "updated"
\* and the supplied fields have the new values.  In each, the fields the body
\* does not name, the record's _id and every other record are as they were,
\* also when the body carries an _id.
C4_PutThreeOutcomes ==
  [][ \A r \in inflight :
        (Done(r) /\ r.req.method = "PUT" /\ ~out'.threw) =>
          LET body == r.req.body
              supplied == DOMAIN body \ {"_id"}
              old == Stored(gems, r.req.id)
              new == Stored(gems', r.req.id)
              same(d) == \A f \in supplied : f \in DOMAIN d /\ d[f] = body[f]
          IN /\ Len(out'.sent) = 1
             /\ gems \ old = gems' \ new
             /\ old = {} => out'.sent[1].status = 404 /\ new = {}
             /\ \A d \in old :
                  /\ out'.sent[1].status = 200
                  /\ same(d) =>
                       /\ out'.sent[1].message =
                            "No changes made to the hidden gem (data was identical)"
                       /\ new = old
                  /\ ~same(d) =>
                       out'.sent[1].message = "Hidden gem updated successfully"
                  /\ Cardinality(new) = 1
                  /\ \A e \in new :
                       /\ e["_id"] = d["_id"]
                       /\ DOMAIN e = DOMAIN d \cup supplied
                       /\ \A f \in supplied : e[f] = body[f]
                       /\ \A f \in DOMAIN d \ supplied : e[f] = d[f] ]_vars

C4_Witness ==
  /\ out.req.method = "PUT" /\ "_id" \in DOMAIN out.req.body
  /\ out.sent # <<>> /\ out.sent[1].message = "Hidden gem updated successfully"
  /\ \E d \in Stored(gems, out.req.id) : d["title"] = out.req.body["title"]

\* C5: once a DELETE has answered 200 for an id, no record is stored under
\* that id ever again, whatever is handled in between, and a GET for it whose
\* store call returns is answered 404.
C5_DestroyedStaysGone ==
  /\ \A id \in destroyed : Stored(gems, id) = {}
  /\ (out.req.method = "GET" /\ out.req.id \in destroyed /\ ~out.threw) =>
       (Len(out.sent) = 1 /\ out.sent[1].status = 404)

C5_Witness ==
  /\ out.req.method = "GET" /\ out.req.id \in destroyed
  /\ out.sent # <<>> /\ out.sent[1].status = 404
  /\ \E d \in gems : d["_id"].t = "oid"

\* C6: after a successful POST, a GET with the returned insertedId (when that
\* is not the empty string) is answered 200 with an object equal to the
\* created one in every field the client supplied.
C6_CreateThenGet ==
  [][ \A r \in inflight :
        (Done(r) /\ r.req.method = "POST" /\ ~out'.threw
           /\ out'.sent[1].insertedId # Str(0)) =>
          LET id == out'.sent[1].insertedId
              got == GetResponses(FindOne(gems', NewObjectId(id)))
          IN /\ IsValid(id)
             /\ got[1].status = 200
             /\ \A g \in got[1].data, c \in out'.sent[1].data :
                  \A f \in DOMAIN r.req.body : g[f] = c[f] ]_vars

\* C7: no store-backed route handler runs for a request before the shared db
\* handle is set.
C7_ConnectedBeforeServing ==
  out.req.method \in {"LIST", "GET", "POST", "PUT", "DELETE"} => db

\* C8: the submissionDate of a stored record never changes.
C8_SubmissionDateSetOnce ==
  [][ \A d \in gems, e \in gems' :
        d["_id"] = e["_id"] => e["submissionDate"] = d["submissionDate"] ]_vars

\* C9: a failure raised while a handler performs its store call is answered
\* by that handler with exactly one response, 500 with the route's message.
C9_StoreFailureIs500 ==
  out.threw =>
    /\ Len(out.sent) = 1
    /\ out.sent[1].status = 500
    /\ out.sent[1].message =
         CASE out.req.method = "LIST" -> "Failed to fetch hidden gems"
           [] out.req.method = "GET" -> "Failed to fetch hidden gem"
           [] out.req.method = "POST" -> "Failed to add hidden gem"
           [] out.req.method = "PUT" -> "Failed to update hidden gem"
           [] out.req.method = "DELETE" -> "Failed to delete hidden gem"
           [] OTHER -> "none"

C9_Witness ==
  /\ out.threw /\ out.calls = 1
  /\ out.req.method = "PUT"
  /\ Stored(gems, out.req.id) # {}

\* C10: every PUT that matches is applied to the record as the store holds it
\* when the update commits, not as it was when the request arrived: the
\* supplied fields take the update's values and every other field keeps what
\* earlier commits, of concurrent PUTs too, left there; the PUT is answered 200.
C10_UpdatesComposeInCommitOrder ==
  [][ \A r \in inflight :
        (Done(r) /\ r.req.method = "PUT" /\ ~out'.threw) =>
          \A d \in Stored(gems, r.req.id) :
            LET u == [f \in DOMAIN r.req.body \ {"_id"} |-> r.req.body[f]]
                merged == [f \in DOMAIN d \cup DOMAIN u |->
                             IF f \in DOMAIN u THEN u[f] ELSE d[f]]
            IN /\ Stored(gems', r.req.id) = {merged}
               /\ out'.sent[1].status = 200 ]_vars

\* the first of two PUTs that are suspended together has been answered: it set
\* the category, and the other, which names only the title, is still waiting
C10_Witness ==
  /\ out.req.method = "PUT" /\ DOMAIN out.req.body = {"title", "category"}
  /\ out.sent # <<>> /\ out.sent[1].message = "Hidden gem updated successfully"
  /\ \E r \in inflight :
       /\ r.req.method = "PUT" /\ r.req.id = out.req.id
       /\ DOMAIN r.req.body = {"title"}
  /\ \E d \in Stored(gems, out.req.id) : d["category"] = Str(2)
====
